---- MODULE Spec2Model ----
(***************************************************************************)
(* Signaling / session relay of the WebRTC phone server                    *)
(* (src/unnamed/part_000, Socket.IO section, lines 1728-1923).             *)
(*                                                                         *)
(* State: the `rooms` map of call sessions, the `ownerSockets` set, the    *)
(* ad hoc fields the handlers keep on each socket (isOwner, roomId), the   *)
(* Socket.IO room memberships, the wall clock read by Date.now() and the   *)
(* due time of the cleanup interval.  Every socket handler is one action;  *)
(* initiate-call is split at its first await.                              *)
(*                                                                         *)
(* The fields callerName, visitorId and isVideoCall of a room record are   *)
(* opaque data that no handler branches on; they are left out.  The call   *)
(* handlers and the cleanup of the legacy server (lines 2197-2358 of the    *)
(* same file) are the same code; its register-owner handler, which has no   *)
(* authentication, is RegisterOwnerLegacy.  Room ids are                    *)
(* `call-<time>-<random>`; they are modelled as fresh, numbered in the      *)
(* order of their creation.                                                 *)
(*                                                                         *)
(* Besides the socket handlers the model holds the routes whose effects    *)
(* the socket layer shows: login and logout (lines 1050-1091), which       *)
(* change the stored session but not the copy a socket took at its         *)
(* handshake, and the sending and reading of chat messages (lines          *)
(* 1183-1246 and 1427-1475).  The typing handler and the reading of a      *)
(* conversation are split at their database awaits.                        *)
(***************************************************************************)
EXTENDS Integers, Sequences, FiniteSets, TLC

\* ---- bounds of the model ----
MaxConns == 3
MaxTimedConns == 2
MaxFairConns == 1
MaxRooms == 2
MaxSweeps == 4
TicksPerInterval == 2
MaxOwnerConns == 2
MaxOwnerRooms == 2
MaxRelayConns == 2
MaxRelayRooms == 1
MaxPayloads == 2
MaxNotifyRooms == 1
MaxMsgConns == 2
MaxMsgRooms == 1
MaxVisitors == 2
MaxMsgPending == 1
MaxTypingConns == 2
MaxPendingTyping == 2
MaxAuthConns == 2
MaxChatConns == 2
MaxMessages == 2
MaxPendingReads == 2

\* ---- program constants ----
MaxAge == 10 * 60 * 1000
SweepInterval == 5 * 60 * 1000

TickStep == SweepInterval \div TicksPerInterval
MaxTime == MaxSweeps * SweepInterval

ConnIds == 1..MaxConns
TimedConnIds == 1..MaxTimedConns
FairConnIds == 1..MaxFairConns
OwnerConnIds == 1..MaxOwnerConns
RelayConnIds == 1..MaxRelayConns
MsgConnIds == 1..MaxMsgConns
VisitorIds == 1..MaxVisitors
TypingConnIds == 1..MaxTypingConns
AuthConnIds == 1..MaxAuthConns
ChatConnIds == 1..MaxChatConns
RoomIds == 1..MaxRooms
NoConn == 0
NoRoomId == 0
NoVisitor == 0

VARIABLES
  connState,     \* per connection id: "new" (id not yet used), "open", "closed"
  authed,        \* socket.request.session has an ownerId (captured at connection)
  isOwner,       \* socket.isOwner
  sockRoomId,    \* socket.roomId (NoRoomId when unset)
  joined,        \* Socket.IO rooms the socket joined, besides its own id
  ownerSockets,  \* the ownerSockets set
  rooms,         \* the rooms map: room id -> record
  nextId,        \* number of room ids generated so far
  pendingAck,    \* initiate-call handlers suspended at their await: room id -> caller
  now,           \* Date.now()
  nextSweep,     \* time at which the cleanup interval fires next
  out,           \* history: the events emitted by the last step, in order
  termCount,     \* history: terminal events emitted so far, per room id
  last,          \* history: the handler that ran last, its socket, its roomId argument
                 \* and, for a relay handler, its data object as sent
  sockVisitorId, \* socket.visitorId (NoVisitor when unset)
  pendingTyping, \* typing handlers suspended at their database lookup, in the order
                 \* in which they started: the socket and the visitor id of each
  sessionOwnerId, \* the session in the session store, under the cookie the socket
                 \* connected with, has an ownerId now
  messages,      \* the visitor messages in the messages table, by id: the visitor
                 \* whose conversation they belong to and is_read
  pendingRead    \* requests for a conversation's messages suspended at their
                 \* UPDATE: the socket, the visitor and unreadIds of each

vars == <<connState, authed, isOwner, sockRoomId, joined, ownerSockets, rooms,
          nextId, pendingAck, now, nextSweep, out, termCount, last,
          sockVisitorId, pendingTyping, sessionOwnerId, messages, pendingRead>>

\* the state of the messaging handlers, which the call handlers leave alone
chatVars == <<messages, pendingRead>>

msgVars == <<sockVisitorId, pendingTyping, sessionOwnerId, messages, pendingRead>>

\* ---- Socket.IO addressing ----
OwnerRoom == [k |-> "owner-room", n |-> 0]
CallRoom(r) == [k |-> "call", n |-> r]
SockRoom(c) == [k |-> "sock", n |-> c]
VisitorRoom(v) == [k |-> "visitor", n |-> v]

\* a targetId that is absent from the data object (undefined)
NoTarget == [k |-> "undefined", n |-> 0]

Open == {c \in ConnIds : connState[c] = "open"}

\* the connected sockets an io.to(target).emit reaches; `gone` is a socket that
\* has already left its rooms (the one whose disconnect handler is running)
Members(target, gone) ==
  {c \in Open \ gone : target = SockRoom(c) \/ target \in joined[c]}

\* socket.emit: the event is written to the socket itself, not to a room
Direct == [k |-> "socket", n |-> 0]

NoPayload == "none"

\* an emitted event: its name, the address it was sent to (dest), the sockets
\* it reaches (to) and the fields of its payload object
Event(ev, to, r, reason, targetId) ==
  [ev |-> ev, to |-> to, roomId |-> r, reason |-> reason, targetId |-> targetId,
   dest |-> Direct, payload |-> NoPayload, senderId |-> NoConn, visitorId |-> NoVisitor,
   messageIds |-> {}]

\* io.to(target).emit(ev, {...})
IoTo(target, gone, ev, r, reason, targetId) ==
  [Event(ev, Members(target, gone), r, reason, targetId) EXCEPT !.dest = target]

TerminalEvents == {"call-ended", "call-declined", "call-cancelled"}

\* ---- the rooms map ----
\* faulty variant: the record is created with the caller as its owner
NewRoomPreassigned(c, t) == [caller |-> c, owner |-> c, status |-> "ringing", createdAt |-> t]

\* { caller: socket.id, owner: null, status: 'ringing', createdAt: Date.now() }
NewRoom(c, t) == [caller |-> c, owner |-> NoConn, status |-> "ringing", createdAt |-> t]

Has(m, r) == r \in DOMAIN m

Set(m, r, rec) == [x \in DOMAIN m \cup {r} |-> IF x = r THEN rec ELSE m[x]]

\* faulty variant: the handler forgets rooms.delete
DeleteForgotten(m, r) == m

Delete(m, r) == [x \in DOMAIN m \ {r} |-> m[x]]

\* faulty variant: the generated id collides with an id in the store
NewRoomIdCollides == IF DOMAIN rooms = {} THEN nextId + 1 ELSE CHOOSE r \in DOMAIN rooms : TRUE

\* `call-${Date.now()}-${random}`: a fresh id
NewRoomId == nextId + 1

\* faulty variant: >= in place of >
ExpiredAtMaxAge(room, t) == t - room.createdAt >= MaxAge

\* faulty variant: only unanswered rooms are cleaned up
ExpiredRingingOnly(room, t) == room.status = "ringing" /\ t - room.createdAt > MaxAge

\* faulty variant: the operands of the subtraction are swapped
ExpiredSwapped(room, t) == room.createdAt - t > MaxAge

Expired(room, t) == t - room.createdAt > MaxAge

\* number of terminal events for room id r in a sequence of emitted events
RECURSIVE CountTerminal(_, _)
CountTerminal(s, r) ==
  IF s = <<>> THEN 0
  ELSE (IF Head(s).ev \in TerminalEvents /\ Head(s).roomId = r THEN 1 ELSE 0)
       + CountTerminal(Tail(s), r)

Emit(evs) ==
  /\ out' = evs
  /\ termCount' = [x \in RoomIds |-> termCount[x] + CountTerminal(evs, x)]

\* the data object of the handlers other than the relay handlers is not recorded
NoData == [roomId |-> NoRoomId, payload |-> NoPayload, targetId |-> NoTarget, senderId |-> NoConn]

Ran(op, c, r) == last' = [op |-> op, c |-> c, r |-> r, data |-> NoData]

\* a relay handler ran: its data object is recorded as it was sent
RanRelay(op, c, data) == last' = [op |-> op, c |-> c, r |-> data.roomId, data |-> data]

Init ==
  /\ connState = [c \in ConnIds |-> "new"]
  /\ authed = [c \in ConnIds |-> FALSE]
  /\ isOwner = [c \in ConnIds |-> FALSE]
  /\ sockRoomId = [c \in ConnIds |-> NoRoomId]
  /\ joined = [c \in ConnIds |-> {}]
  /\ ownerSockets = {}
  /\ rooms = <<>>
  /\ nextId = 0
  /\ pendingAck = <<>>
  /\ now = 0
  /\ nextSweep = SweepInterval
  /\ out = <<>>
  /\ termCount = [r \in RoomIds |-> 0]
  /\ last = [op |-> "init", c |-> NoConn, r |-> NoRoomId, data |-> NoData]
  /\ sockVisitorId = [c \in ConnIds |-> NoVisitor]
  /\ pendingTyping = <<>>
  /\ sessionOwnerId = [c \in ConnIds |-> FALSE]
  /\ messages = <<>>
  /\ pendingRead = <<>>

\* io.on('connection'): socket ids are fresh, so the lowest unused id is taken
Connect(c, a) ==
  /\ connState[c] = "new"
  /\ Ran("connection", c, NoRoomId)
  /\ \A d \in ConnIds : d < c => connState[d] # "new"
  /\ connState' = [connState EXCEPT ![c] = "open"]
  /\ authed' = [authed EXCEPT ![c] = a]
  /\ Emit(<<>>)
  /\ UNCHANGED <<isOwner, sockRoomId, joined, ownerSockets, rooms, nextId,
                 pendingAck, now, nextSweep>>
  /\ sessionOwnerId' = [sessionOwnerId EXCEPT ![c] = a]
  /\ UNCHANGED <<sockVisitorId, pendingTyping>>
  /\ UNCHANGED chatVars

\* faulty variant: the socket is added to ownerSockets but does not join the
\* owner room
RegisterOwnerNoJoin(c) ==
  /\ connState[c] = "open"
  /\ Ran("register-owner", c, NoRoomId)
  /\ IF authed[c]
     THEN /\ ownerSockets' = ownerSockets \cup {c}
          /\ isOwner' = [isOwner EXCEPT ![c] = TRUE]
          /\ Emit(<<Event("registered", {c}, NoRoomId, "", NoConn)>>)
     ELSE /\ UNCHANGED <<ownerSockets, isOwner>>
          /\ Emit(<<Event("error", {c}, NoRoomId, "Authentication required", NoConn)>>)
  /\ UNCHANGED <<connState, authed, sockRoomId, joined, rooms, nextId, pendingAck, now,
                 nextSweep>>
  /\ UNCHANGED msgVars

RegisterOwner(c) ==
  /\ connState[c] = "open"
  /\ Ran("register-owner", c, NoRoomId)
  /\ IF authed[c]
     THEN /\ ownerSockets' = ownerSockets \cup {c}
          /\ joined' = [joined EXCEPT ![c] = @ \cup {OwnerRoom}]
          /\ isOwner' = [isOwner EXCEPT ![c] = TRUE]
          /\ Emit(<<Event("registered", {c}, NoRoomId, "", NoConn)>>)
     ELSE /\ UNCHANGED <<ownerSockets, joined, isOwner>>
          /\ Emit(<<Event("error", {c}, NoRoomId, "Authentication required", NoConn)>>)
  /\ UNCHANGED <<connState, authed, sockRoomId, rooms, nextId, pendingAck, now, nextSweep>>
  /\ UNCHANGED msgVars

\* ---- owner sessions ----
\* POST /api/auth/login with the right password, from the browser behind
\* socket c: the request's session gets an ownerId and is saved to the store
Login(c) ==
  /\ connState[c] = "open"
  /\ Ran("login", c, NoRoomId)
  /\ sessionOwnerId' = [sessionOwnerId EXCEPT ![c] = TRUE]
  /\ Emit(<<>>)
  /\ UNCHANGED <<connState, authed, isOwner, sockRoomId, joined, ownerSockets, rooms,
                 nextId, pendingAck, now, nextSweep, sockVisitorId, pendingTyping>>
  /\ UNCHANGED chatVars

\* POST /api/auth/logout from the browser behind socket c: req.session.destroy()
Logout(c) ==
  /\ connState[c] = "open"
  /\ Ran("logout", c, NoRoomId)
  /\ sessionOwnerId' = [sessionOwnerId EXCEPT ![c] = FALSE]
  /\ Emit(<<>>)
  /\ UNCHANGED <<connState, authed, isOwner, sockRoomId, joined, ownerSockets, rooms,
                 nextId, pendingAck, now, nextSweep, sockVisitorId, pendingTyping>>
  /\ UNCHANGED chatVars

\* socket.on('join-visitor-room')
JoinVisitorRoom(c, v) ==
  /\ connState[c] = "open"
  /\ Ran("join-visitor-room", c, NoRoomId)
  /\ joined' = [joined EXCEPT ![c] = @ \cup {VisitorRoom(v)}]
  /\ sockVisitorId' = [sockVisitorId EXCEPT ![c] = v]
  /\ Emit(<<>>)
  /\ UNCHANGED <<connState, authed, isOwner, sockRoomId, ownerSockets, rooms, nextId,
                 pendingAck, now, nextSweep, pendingTyping, sessionOwnerId>>
  /\ UNCHANGED chatVars

\* socket.on('register-owner') of the legacy server (lines 2201-2206), which
\* has no sessions: every connection that asks is registered
RegisterOwnerLegacy(c) ==
  /\ connState[c] = "open"
  /\ Ran("register-owner", c, NoRoomId)
  /\ ownerSockets' = ownerSockets \cup {c}
  /\ joined' = [joined EXCEPT ![c] = @ \cup {OwnerRoom}]
  /\ Emit(<<Event("registered", {c}, NoRoomId, "", NoConn)>>)
  /\ UNCHANGED <<connState, authed, isOwner, sockRoomId, rooms, nextId, pendingAck,
                 now, nextSweep>>
  /\ UNCHANGED msgVars

\* socket.on('initiate-call'), up to the first await
InitiateCall(c) ==
  /\ connState[c] = "open"
  /\ Ran("initiate-call", c, NewRoomId)
  /\ nextId < MaxRooms
  /\ now + MaxAge + SweepInterval <= MaxTime
  /\ LET r == NewRoomId IN
       /\ rooms' = Set(rooms, r, NewRoom(c, now))
       /\ joined' = [joined EXCEPT ![c] = @ \cup {CallRoom(r)}]
       /\ sockRoomId' = [sockRoomId EXCEPT ![c] = r]
       /\ pendingAck' = [x \in DOMAIN pendingAck \cup {r} |-> IF x = r THEN c ELSE pendingAck[x]]
       /\ Emit(<<IoTo(OwnerRoom, {}, "incoming-call", r, "", c)>>)
  /\ nextId' = nextId + 1
  /\ UNCHANGED <<connState, authed, isOwner, ownerSockets, now, nextSweep>>
  /\ UNCHANGED msgVars

\* how sendPushNotification and sendEmailNotification end: the notification is
\* sent, it fails and the error is caught and logged, or it is not configured
NotifyOutcomes == {"sent", "failed", "skipped"}

\* faulty variant: a failed notification rejects the handler
AckEventsUnlessFailed(c, r, push, email) ==
  IF push = "failed" \/ email = "failed" THEN <<>>
  ELSE <<Event("call-initiated", {c} \cap Open, r, "ringing", NoConn)>>

\* socket.emit('call-initiated', { roomId, status: 'ringing' }), however the
\* notifications ended
AckEvents(c, r, push, email) ==
  <<Event("call-initiated", {c} \cap Open, r, "ringing", NoConn)>>

\* socket.on('initiate-call'), after the push and e-mail notifications settled
InitiateCallAck(r) ==
  /\ Has(pendingAck, r)
  /\ Ran("call-initiated", pendingAck[r], r)
  /\ pendingAck' = [x \in DOMAIN pendingAck \ {r} |-> pendingAck[x]]
  /\ \E push \in NotifyOutcomes, email \in NotifyOutcomes :
       Emit(AckEvents(pendingAck[r], r, push, email))
  /\ UNCHANGED <<connState, authed, isOwner, sockRoomId, joined, ownerSockets, rooms,
                 nextId, now, nextSweep>>
  /\ UNCHANGED msgVars

\* faulty variant: call-answered is sent to the call room, which the answering
\* socket has just joined, in place of the caller
AnswerCallToRoom(c, r) ==
  /\ connState[c] = "open"
  /\ Ran("answer-call", c, r)
  /\ IF ~Has(rooms, r)
     THEN /\ Emit(<<Event("error", {c}, NoRoomId, "Call no longer exists", NoConn)>>)
          /\ UNCHANGED <<rooms, joined, sockRoomId>>
     ELSE /\ rooms' = [rooms EXCEPT ![r].owner = c, ![r].status = "connecting"]
          /\ joined' = [joined EXCEPT ![c] = @ \cup {CallRoom(r)}]
          /\ sockRoomId' = [sockRoomId EXCEPT ![c] = r]
          /\ Emit(<<[Event("call-answered", Members(CallRoom(r), {}) \cup {c}, r, "", NoConn)
                     EXCEPT !.dest = CallRoom(r)],
                    Event("create-offer", {c}, r, "", rooms[r].caller)>>)
  /\ UNCHANGED <<connState, authed, isOwner, ownerSockets, nextId, pendingAck, now, nextSweep>>
  /\ UNCHANGED msgVars

\* faulty variant: the socket joins the call room before the room is looked up
AnswerCallJoinsFirst(c, r) ==
  /\ connState[c] = "open"
  /\ Ran("answer-call", c, r)
  /\ joined' = [joined EXCEPT ![c] = @ \cup {CallRoom(r)}]
  /\ sockRoomId' = [sockRoomId EXCEPT ![c] = r]
  /\ IF ~Has(rooms, r)
     THEN /\ Emit(<<Event("error", {c}, NoRoomId, "Call no longer exists", NoConn)>>)
          /\ UNCHANGED rooms
     ELSE /\ rooms' = [rooms EXCEPT ![r].owner = c, ![r].status = "connecting"]
          /\ Emit(<<IoTo(SockRoom(rooms[r].caller), {}, "call-answered", r, "", NoConn),
                    Event("create-offer", {c}, r, "", rooms[r].caller)>>)
  /\ UNCHANGED <<connState, authed, isOwner, ownerSockets, nextId, pendingAck, now, nextSweep>>
  /\ UNCHANGED msgVars

AnswerCall(c, r) ==
  /\ connState[c] = "open"
  /\ Ran("answer-call", c, r)
  /\ IF ~Has(rooms, r)
     THEN /\ Emit(<<Event("error", {c}, NoRoomId, "Call no longer exists", NoConn)>>)
          /\ UNCHANGED <<rooms, joined, sockRoomId>>
     ELSE /\ rooms' = [rooms EXCEPT ![r].owner = c, ![r].status = "connecting"]
          /\ joined' = [joined EXCEPT ![c] = @ \cup {CallRoom(r)}]
          /\ sockRoomId' = [sockRoomId EXCEPT ![c] = r]
          /\ Emit(<<IoTo(SockRoom(rooms[r].caller), {}, "call-answered", r, "", NoConn),
                    Event("create-offer", {c}, r, "", rooms[r].caller)>>)
  /\ UNCHANGED <<connState, authed, isOwner, ownerSockets, nextId, pendingAck, now, nextSweep>>
  /\ UNCHANGED msgVars

DeclineCall(c, r) ==
  /\ connState[c] = "open"
  /\ Ran("decline-call", c, r)
  /\ IF Has(rooms, r)
     THEN /\ rooms' = Delete(rooms, r)
          /\ Emit(<<IoTo(SockRoom(rooms[r].caller), {}, "call-declined", r, "", NoConn)>>)
     ELSE /\ UNCHANGED rooms
          /\ Emit(<<>>)
  /\ UNCHANGED <<connState, authed, isOwner, sockRoomId, joined, ownerSockets, nextId,
                 pendingAck, now, nextSweep>>
  /\ UNCHANGED msgVars

CancelCall(c, r) ==
  /\ connState[c] = "open"
  /\ Ran("cancel-call", c, r)
  /\ IF Has(rooms, r)
     THEN /\ rooms' = Delete(rooms, r)
          /\ Emit(<<IoTo(OwnerRoom, {}, "call-cancelled", r, "", NoConn)>>)
     ELSE /\ UNCHANGED rooms
          /\ Emit(<<>>)
  /\ UNCHANGED <<connState, authed, isOwner, sockRoomId, joined, ownerSockets, nextId,
                 pendingAck, now, nextSweep>>
  /\ UNCHANGED msgVars

\* ---- WebRTC signaling relay ----
\* what a client can put into targetId: nothing, a socket id (of a socket that
\* is connected, gone or never seen) or the name of a room
Targets == {NoTarget, OwnerRoom} \cup {SockRoom(c) : c \in ConnIds} \cup {CallRoom(r) : r \in RoomIds}

Payloads == 1..MaxPayloads

\* the data object of an offer, answer or ice-candidate event; senderId is a
\* field the handlers do not read
RelayData == [roomId : RoomIds, payload : Payloads, targetId : Targets, senderId : ConnIds]

\* faulty variant: the sender id is taken from the data object
SenderIdFromData(c, data) == data.senderId

\* senderId: socket.id
SenderId(c, data) == c

\* faulty variant: an event without a target is sent to every socket
RelayDestOrEveryone(data) ==
  IF data.targetId = NoTarget THEN {c \in ConnIds : connState[c] = "open"}
  ELSE Members(data.targetId, {})

\* io.to(targetId): the sockets the forwarded event reaches
RelayDest(data) == Members(data.targetId, {})

\* io.to(targetId).emit(ev, { <payload>, roomId, senderId: socket.id })
Forward(ev, c, data) ==
  /\ connState[c] = "open"
  /\ RanRelay(ev, c, data)
  /\ Emit(<<[Event(ev, RelayDest(data), data.roomId, "", NoConn)
             EXCEPT !.dest = data.targetId,
                    !.payload = data.payload,
                    !.senderId = SenderId(c, data)]>>)
  /\ UNCHANGED <<connState, authed, isOwner, sockRoomId, joined, ownerSockets, rooms,
                 nextId, pendingAck, now, nextSweep>>
  /\ UNCHANGED msgVars

Offer(c, data) == Forward("offer", c, data)

Answer(c, data) == Forward("answer", c, data)

IceCandidate(c, data) == Forward("ice-candidate", c, data)

\* ---- messaging ----
\* the data object of a typing event: visitorId (NoVisitor when absent) and
\* whether the conversation id has to be looked up (!conversationId && db)
TypingData == [visitorId : VisitorIds \cup {NoVisitor}, lookup : BOOLEAN]

RanTyping(c, data) == last' = [op |-> "typing", c |-> c, r |-> NoRoomId, data |-> data]

\* faulty variant: owner-typing is sent to the owner room
OwnerTypingToOwners(v) ==
  [IoTo(OwnerRoom, {}, "owner-typing", NoRoomId, "", NoConn) EXCEPT !.visitorId = v]

\* io.to(`visitor-${visitorId}`).emit('owner-typing', { isTyping })
OwnerTyping(v) ==
  [IoTo(VisitorRoom(v), {}, "owner-typing", NoRoomId, "", NoConn) EXCEPT !.visitorId = v]

\* io.to('owner-room').emit('visitor-typing', { conversationId, visitorId, isTyping })
VisitorTyping(v) ==
  [IoTo(OwnerRoom, {}, "visitor-typing", NoRoomId, "", NoConn) EXCEPT !.visitorId = v]

\* socket.on('typing'), up to its await or, without one, to its end
Typing(c, data) ==
  /\ connState[c] = "open"
  /\ RanTyping(c, data)
  /\ IF isOwner[c] /\ data.visitorId # NoVisitor
     THEN /\ Emit(<<OwnerTyping(data.visitorId)>>)
          /\ UNCHANGED pendingTyping
     ELSE IF data.visitorId # NoVisitor
          THEN IF data.lookup
               THEN /\ pendingTyping' = Append(pendingTyping, [c |-> c, visitorId |-> data.visitorId])
                    /\ Emit(<<>>)
               ELSE /\ Emit(<<VisitorTyping(data.visitorId)>>)
                    /\ UNCHANGED pendingTyping
          ELSE /\ Emit(<<>>)
               /\ UNCHANGED pendingTyping
  /\ UNCHANGED <<connState, authed, isOwner, sockRoomId, joined, ownerSockets, rooms,
                 nextId, pendingAck, now, nextSweep, sockVisitorId, sessionOwnerId>>
  /\ UNCHANGED chatVars

\* a sequence without its i-th element
RemoveAt(q, i) == SubSeq(q, 1, i - 1) \o SubSeq(q, i + 1, Len(q))

\* the lookup that settled: its socket, its visitor id and its place among
\* the pending lookups
RanLookup(i) ==
  last' = [op |-> "typing-lookup", c |-> pendingTyping[i].c, r |-> NoRoomId,
           data |-> [visitorId |-> pendingTyping[i].visitorId, lookup |-> TRUE, position |-> i]]

\* socket.on('typing'), after the lookup of the conversation id settled; the
\* queries run on a connection pool and settle in any order
TypingLookupDone(i) ==
  /\ i \in DOMAIN pendingTyping
  /\ RanLookup(i)
  /\ pendingTyping' = RemoveAt(pendingTyping, i)
  /\ Emit(<<VisitorTyping(pendingTyping[i].visitorId)>>)
  /\ UNCHANGED <<connState, authed, isOwner, sockRoomId, joined, ownerSockets, rooms,
                 nextId, pendingAck, now, nextSweep, sockVisitorId, sessionOwnerId>>
  /\ UNCHANGED chatVars

\* ---- chat messages ----
\* the ids of the visitor messages of visitor v's conversation that are unread
UnreadIds(v) == {m \in DOMAIN messages : messages[m].visitorId = v /\ ~messages[m].isRead}

\* POST /api/messages/send: the INSERT of a visitor message (ids are given by
\* AUTO_INCREMENT) and the new-message event to the owner room
SendMessage(v) ==
  /\ Len(messages) < MaxMessages
  /\ Ran("send-message", NoConn, NoRoomId)
  /\ messages' = Append(messages, [visitorId |-> v, isRead |-> FALSE])
  /\ Emit(<<[IoTo(OwnerRoom, {}, "new-message", NoRoomId, "", NoConn)
             EXCEPT !.visitorId = v, !.messageIds = {Len(messages) + 1}]>>)
  /\ UNCHANGED <<connState, authed, isOwner, sockRoomId, joined, ownerSockets, rooms,
                 nextId, pendingAck, now, nextSweep, sockVisitorId, pendingTyping,
                 sessionOwnerId, pendingRead>>

\* GET /api/owner/conversations/:id/messages, from requireAuth to the SELECT of
\* the messages: unreadIds is computed; with none the request ends here
ReadMessages(c, v) ==
  /\ connState[c] = "open"
  /\ sessionOwnerId[c]
  /\ Ran("read-messages", c, NoRoomId)
  /\ pendingRead' = IF UnreadIds(v) = {} THEN pendingRead
                    ELSE Append(pendingRead, [c |-> c, visitorId |-> v, unreadIds |-> UnreadIds(v)])
  /\ Emit(<<>>)
  /\ UNCHANGED <<connState, authed, isOwner, sockRoomId, joined, ownerSockets, rooms,
                 nextId, pendingAck, now, nextSweep, sockVisitorId, pendingTyping,
                 sessionOwnerId, messages>>

\* messageIds: unreadIds
ReceiptIds(req) == req.unreadIds

\* the same request, from its UPDATE on: every unread visitor message of the
\* conversation is marked read and messages-read is sent to the visitor's room
MarkRead(i) ==
  /\ i \in DOMAIN pendingRead
  /\ last' = [op |-> "mark-read", c |-> pendingRead[i].c, r |-> NoRoomId,
              data |-> [visitorId |-> pendingRead[i].visitorId, lookup |-> FALSE, position |-> i]]
  /\ pendingRead' = RemoveAt(pendingRead, i)
  /\ LET v == pendingRead[i].visitorId IN
       /\ messages' = [m \in DOMAIN messages |->
                         IF m \in UnreadIds(v) THEN [messages[m] EXCEPT !.isRead = TRUE]
                         ELSE messages[m]]
       /\ Emit(<<[IoTo(VisitorRoom(v), {}, "messages-read", NoRoomId, "", NoConn)
                  EXCEPT !.visitorId = v, !.messageIds = ReceiptIds(pendingRead[i])]>>)
  /\ UNCHANGED <<connState, authed, isOwner, sockRoomId, joined, ownerSockets, rooms,
                 nextId, pendingAck, now, nextSweep, sockVisitorId, pendingTyping,
                 sessionOwnerId>>

EndCall(c, r) ==
  /\ connState[c] = "open"
  /\ Ran("end-call", c, r)
  /\ IF Has(rooms, r)
     THEN /\ rooms' = Delete(rooms, r)
          /\ Emit(<<IoTo(CallRoom(r), {}, "call-ended", r, "", NoConn)>>)
     ELSE /\ UNCHANGED rooms
          /\ Emit(<<>>)
  /\ UNCHANGED <<connState, authed, isOwner, sockRoomId, joined, ownerSockets, nextId,
                 pendingAck, now, nextSweep>>
  /\ UNCHANGED msgVars

\* faulty variant: the handler forgets ownerSockets.delete
DisconnectKeepsOwner(c) ==
  /\ connState[c] = "open"
  /\ Ran("disconnect", c, sockRoomId[c])
  /\ connState' = [connState EXCEPT ![c] = "closed"]
  /\ UNCHANGED ownerSockets
  /\ LET r == sockRoomId[c] IN
       IF r # NoRoomId /\ Has(rooms, r)
       THEN /\ rooms' = Delete(rooms, r)
            /\ Emit(<<IoTo(CallRoom(r), {c}, "call-ended", r, "peer-disconnected", NoConn)>>)
       ELSE /\ UNCHANGED rooms
            /\ Emit(<<>>)
  /\ authed' = [authed EXCEPT ![c] = FALSE]
  /\ isOwner' = [isOwner EXCEPT ![c] = FALSE]
  /\ sockRoomId' = [sockRoomId EXCEPT ![c] = NoRoomId]
  /\ joined' = [joined EXCEPT ![c] = {}]
  /\ UNCHANGED <<nextId, pendingAck, now, nextSweep>>
  /\ sockVisitorId' = [sockVisitorId EXCEPT ![c] = NoVisitor]
  /\ sessionOwnerId' = [sessionOwnerId EXCEPT ![c] = FALSE]
  /\ UNCHANGED pendingTyping
  /\ UNCHANGED chatVars

\* socket.on('disconnect'): Socket.IO has removed the socket from its rooms
\* before the handler runs; the socket object is discarded afterwards
Disconnect(c) ==
  /\ connState[c] = "open"
  /\ Ran("disconnect", c, sockRoomId[c])
  /\ connState' = [connState EXCEPT ![c] = "closed"]
  /\ ownerSockets' = ownerSockets \ {c}
  /\ LET r == sockRoomId[c] IN
       IF r # NoRoomId /\ Has(rooms, r)
       THEN /\ rooms' = Delete(rooms, r)
            /\ Emit(<<IoTo(CallRoom(r), {c}, "call-ended", r, "peer-disconnected", NoConn)>>)
       ELSE /\ UNCHANGED rooms
            /\ Emit(<<>>)
  /\ authed' = [authed EXCEPT ![c] = FALSE]
  /\ isOwner' = [isOwner EXCEPT ![c] = FALSE]
  /\ sockRoomId' = [sockRoomId EXCEPT ![c] = NoRoomId]
  /\ joined' = [joined EXCEPT ![c] = {}]
  /\ UNCHANGED <<nextId, pendingAck, now, nextSweep>>
  /\ sockVisitorId' = [sockVisitorId EXCEPT ![c] = NoVisitor]
  /\ sessionOwnerId' = [sessionOwnerId EXCEPT ![c] = FALSE]
  /\ UNCHANGED pendingTyping
  /\ UNCHANGED chatVars

\* ---- cleanup interval ----
ExpiredIds(m, t) == {r \in DOMAIN m : Expired(m[r], t)}

\* rooms.delete(roomId) for each expired room
RECURSIVE DeleteEach(_, _)
DeleteEach(m, S) ==
  IF S = {} THEN m
  ELSE LET r == CHOOSE x \in S : TRUE IN DeleteEach(Delete(m, r), S \ {r})

\* one call-ended per expired room, in the iteration order of the map
\* (insertion order, which is the order of the ids)
RECURSIVE TimeoutEvents(_)
TimeoutEvents(S) ==
  IF S = {} THEN <<>>
  ELSE LET r == CHOOSE x \in S : \A y \in S : x <= y IN
         <<IoTo(CallRoom(r), {}, "call-ended", r, "timeout", NoConn)>>
         \o TimeoutEvents(S \ {r})

Sweep ==
  /\ now = nextSweep
  /\ Ran("sweep", NoConn, NoRoomId)
  /\ nextSweep' = nextSweep + SweepInterval
  /\ LET gone == ExpiredIds(rooms, now) IN
       /\ rooms' = DeleteEach(rooms, gone)
       /\ Emit(TimeoutEvents(gone))
  /\ UNCHANGED <<connState, authed, isOwner, sockRoomId, joined, ownerSockets, nextId,
                 pendingAck, now>>
  /\ UNCHANGED msgVars

\* the clock advances; the interval fires when due, so time does not pass nextSweep
Tick ==
  /\ now < nextSweep
  /\ Ran("tick", NoConn, NoRoomId)
  /\ now < MaxTime
  /\ now' = IF now + TickStep < nextSweep THEN now + TickStep ELSE nextSweep
  /\ Emit(<<>>)
  /\ UNCHANGED <<connState, authed, isOwner, sockRoomId, joined, ownerSockets, rooms,
                 nextId, pendingAck, nextSweep>>
  /\ UNCHANGED msgVars

\* ---- specifications ----
\* Spec: the call handlers alone, for up to MaxConns connections that never
\* authenticate; the handlers run within the first cleanup interval.
Next ==
  \/ \E c \in ConnIds : Connect(c, FALSE)
  \/ \E c \in ConnIds : InitiateCall(c)
  \/ \E r \in RoomIds : InitiateCallAck(r)
  \/ \E c \in ConnIds, r \in RoomIds : AnswerCall(c, r)
  \/ \E c \in ConnIds, r \in RoomIds : DeclineCall(c, r)
  \/ \E c \in ConnIds, r \in RoomIds : CancelCall(c, r)
  \/ \E c \in ConnIds, r \in RoomIds : EndCall(c, r)
  \/ \E c \in ConnIds : Disconnect(c)

Spec == Init /\ [][Next]_vars

\* TimedSpec: the call handlers of up to MaxTimedConns connections, the clock
\* and the cleanup interval.
TimedNext ==
  \/ \E c \in TimedConnIds : Connect(c, FALSE)
  \/ \E c \in TimedConnIds : InitiateCall(c)
  \/ \E r \in RoomIds : InitiateCallAck(r)
  \/ \E c \in TimedConnIds, r \in RoomIds : AnswerCall(c, r)
  \/ \E c \in TimedConnIds, r \in RoomIds : DeclineCall(c, r)
  \/ \E c \in TimedConnIds, r \in RoomIds : CancelCall(c, r)
  \/ \E c \in TimedConnIds, r \in RoomIds : EndCall(c, r)
  \/ \E c \in TimedConnIds : Disconnect(c)
  \/ Sweep
  \/ Tick

TimedSpec == Init /\ [][TimedNext]_vars

\* FairSpec: the same handlers for up to MaxFairConns connections; the event
\* loop keeps running, so time passes and the interval callback fires.
FairNext ==
  \/ \E c \in FairConnIds : Connect(c, FALSE)
  \/ \E c \in FairConnIds : InitiateCall(c)
  \/ \E r \in RoomIds : InitiateCallAck(r)
  \/ \E c \in FairConnIds, r \in RoomIds : AnswerCall(c, r)
  \/ \E c \in FairConnIds, r \in RoomIds : DeclineCall(c, r)
  \/ \E c \in FairConnIds, r \in RoomIds : CancelCall(c, r)
  \/ \E c \in FairConnIds, r \in RoomIds : EndCall(c, r)
  \/ \E c \in FairConnIds : Disconnect(c)
  \/ Sweep
  \/ Tick

FairSpec == Init /\ [][FairNext]_vars /\ WF_vars(Tick) /\ WF_vars(Sweep)

\* OwnerSpec: owner registration and the call handlers for up to MaxOwnerConns
\* connections, each with or without an authenticated owner session, and
\* MaxOwnerRooms calls.
OwnerNext ==
  \/ \E c \in OwnerConnIds, a \in BOOLEAN : Connect(c, a)
  \/ \E c \in OwnerConnIds : RegisterOwner(c)
  \/ \E c \in OwnerConnIds : nextId < MaxOwnerRooms /\ InitiateCall(c)
  \/ \E r \in RoomIds : InitiateCallAck(r)
  \/ \E c \in OwnerConnIds, r \in RoomIds : AnswerCall(c, r)
  \/ \E c \in OwnerConnIds, r \in RoomIds : DeclineCall(c, r)
  \/ \E c \in OwnerConnIds, r \in RoomIds : CancelCall(c, r)
  \/ \E c \in OwnerConnIds, r \in RoomIds : EndCall(c, r)
  \/ \E c \in OwnerConnIds : Disconnect(c)

OwnerSpec == Init /\ [][OwnerNext]_vars

\* LegacySpec: the legacy server (lines 1953-2378), whose connections carry no
\* session and whose call handlers are the same code.
LegacyNext ==
  \/ \E c \in OwnerConnIds : Connect(c, FALSE)
  \/ \E c \in OwnerConnIds : RegisterOwnerLegacy(c)
  \/ \E c \in OwnerConnIds : nextId < MaxOwnerRooms /\ InitiateCall(c)
  \/ \E r \in RoomIds : InitiateCallAck(r)
  \/ \E c \in OwnerConnIds, r \in RoomIds : AnswerCall(c, r)
  \/ \E c \in OwnerConnIds, r \in RoomIds : DeclineCall(c, r)
  \/ \E c \in OwnerConnIds, r \in RoomIds : CancelCall(c, r)
  \/ \E c \in OwnerConnIds, r \in RoomIds : EndCall(c, r)
  \/ \E c \in OwnerConnIds : Disconnect(c)

LegacySpec == Init /\ [][LegacyNext]_vars

\* MsgSpec: the registration of owners and visitors, the typing handler and
\* the handlers that broadcast to the owner room, for up to MaxMsgConns
\* connections and MaxMsgRooms calls.
MsgNext ==
  \/ \E c \in MsgConnIds, a \in BOOLEAN : Connect(c, a)
  \/ \E c \in MsgConnIds : RegisterOwner(c)
  \/ \E c \in MsgConnIds, v \in VisitorIds : JoinVisitorRoom(c, v)
  \/ \E c \in MsgConnIds, data \in TypingData :
       (data.lookup => Len(pendingTyping) < MaxMsgPending) /\ Typing(c, data)
  \/ \E i \in 1..MaxMsgPending : TypingLookupDone(i)
  \/ \E c \in MsgConnIds : nextId < MaxMsgRooms /\ InitiateCall(c)
  \/ \E r \in RoomIds : InitiateCallAck(r)
  \/ \E c \in MsgConnIds, r \in RoomIds : CancelCall(c, r)
  \/ \E c \in MsgConnIds : Disconnect(c)

MsgSpec == Init /\ [][MsgNext]_vars

\* AuthSpec: connections, logins and logouts of the browsers behind them,
\* owner registration and calls, for up to MaxAuthConns connections.
AuthNext ==
  \/ \E c \in AuthConnIds, a \in BOOLEAN : Connect(c, a)
  \/ \E c \in AuthConnIds : Login(c)
  \/ \E c \in AuthConnIds : Logout(c)
  \/ \E c \in AuthConnIds : RegisterOwner(c)
  \/ \E c \in AuthConnIds : nextId < MaxNotifyRooms /\ InitiateCall(c)
  \/ \E r \in RoomIds : InitiateCallAck(r)
  \/ \E c \in AuthConnIds : Disconnect(c)

AuthSpec == Init /\ [][AuthNext]_vars

\* ChatSpec: visitors' messages and the owner's reading of a conversation,
\* for up to MaxChatConns connections, MaxMessages messages and
\* MaxPendingReads requests under way.
ChatNext ==
  \/ \E c \in ChatConnIds, a \in BOOLEAN : Connect(c, a)
  \/ \E c \in ChatConnIds : RegisterOwner(c)
  \/ \E c \in ChatConnIds, v \in VisitorIds : JoinVisitorRoom(c, v)
  \/ \E v \in VisitorIds : SendMessage(v)
  \/ \E c \in ChatConnIds, v \in VisitorIds :
       Len(pendingRead) < MaxPendingReads /\ ReadMessages(c, v)
  \/ \E i \in 1..MaxPendingReads : MarkRead(i)
  \/ \E c \in ChatConnIds : Disconnect(c)

ChatSpec == Init /\ [][ChatNext]_vars

\* TypingSpec: registration and typing for up to MaxTypingConns connections,
\* with up to MaxPendingTyping lookups of a conversation id under way.
TypingNext ==
  \/ \E c \in TypingConnIds, a \in BOOLEAN : Connect(c, a)
  \/ \E c \in TypingConnIds : RegisterOwner(c)
  \/ \E c \in TypingConnIds, v \in VisitorIds : JoinVisitorRoom(c, v)
  \/ \E c \in TypingConnIds, data \in TypingData :
       (data.lookup => Len(pendingTyping) < MaxPendingTyping) /\ Typing(c, data)
  \/ \E i \in 1..MaxPendingTyping : TypingLookupDone(i)
  \/ \E c \in TypingConnIds : Disconnect(c)

TypingSpec == Init /\ [][TypingNext]_vars

\* NotifySpec: the handlers of OwnerSpec for MaxNotifyRooms calls, with the
\* notifications of every initiate-call settling at some time, after which
\* the handler resumes.
NotifyNext ==
  \/ \E c \in OwnerConnIds, a \in BOOLEAN : Connect(c, a)
  \/ \E c \in OwnerConnIds : RegisterOwner(c)
  \/ \E c \in OwnerConnIds : nextId < MaxNotifyRooms /\ InitiateCall(c)
  \/ \E r \in RoomIds : InitiateCallAck(r)
  \/ \E c \in OwnerConnIds, r \in RoomIds : AnswerCall(c, r)
  \/ \E c \in OwnerConnIds, r \in RoomIds : DeclineCall(c, r)
  \/ \E c \in OwnerConnIds, r \in RoomIds : CancelCall(c, r)
  \/ \E c \in OwnerConnIds, r \in RoomIds : EndCall(c, r)
  \/ \E c \in OwnerConnIds : Disconnect(c)

NotifySpec ==
  Init /\ [][NotifyNext]_vars /\ \A r \in RoomIds : WF_vars(InitiateCallAck(r))

\* RelaySpec: the call handlers and the relay of offer, answer and
\* ice-candidate for up to MaxRelayConns connections and MaxRelayRooms calls.
RelayNext ==
  \/ \E c \in RelayConnIds : Connect(c, FALSE)
  \/ \E c \in RelayConnIds : nextId < MaxRelayRooms /\ InitiateCall(c)
  \/ \E r \in RoomIds : InitiateCallAck(r)
  \/ \E c \in RelayConnIds, r \in RoomIds : AnswerCall(c, r)
  \/ \E c \in RelayConnIds, r \in RoomIds : DeclineCall(c, r)
  \/ \E c \in RelayConnIds, r \in RoomIds : CancelCall(c, r)
  \/ \E c \in RelayConnIds, r \in RoomIds : EndCall(c, r)
  \/ \E c \in RelayConnIds : Disconnect(c)
  \/ \E c \in RelayConnIds, data \in RelayData : Offer(c, data)
  \/ \E c \in RelayConnIds, data \in RelayData : Answer(c, data)
  \/ \E c \in RelayConnIds, data \in RelayData : IceCandidate(c, data)

RelaySpec == Init /\ [][RelayNext]_vars

\* ---- helpers of the properties ----
ReceivedNext(c, ev, r, reason) ==
  {i \in DOMAIN out' : /\ out'[i].ev = ev
                       /\ out'[i].roomId = r
                       /\ out'[i].reason = reason
                       /\ c \in out'[i].to}

EmittedNext(ev) == {i \in DOMAIN out' : out'[i].ev = ev}

\* the sessions in the store of which c is the caller or the owner
SessionsOf(m, c) == {r \in DOMAIN m : m[r].caller = c \/ m[r].owner = c}

OtherParticipant(room, c) == IF room.caller = c THEN room.owner ELSE room.caller

\* ---- C1 ----
\* C1: for any session, at most one answer-call succeeds: an answer-call on a
\* session whose owner is already set is rejected, leaves the owner unchanged
\* and is sent no create-offer.
C1_SecondAnswerRejected ==
  [][(/\ last'.op = "answer-call"
      /\ Has(rooms, last'.r)
      /\ rooms[last'.r].owner # NoConn)
     => (/\ Has(rooms', last'.r)
         /\ rooms'[last'.r].owner = rooms[last'.r].owner
         /\ EmittedNext("create-offer") = {})]_vars

\* ---- C2 ----
\* C2: when a connection disconnects, every session in the store of which it
\* is the caller or the owner is removed, and the other participant of that
\* session (if assigned) is sent exactly one call-ended with reason
\* peer-disconnected.
C2_DisconnectResolvesEverySession ==
  [][last'.op = "disconnect"
     => \A r \in SessionsOf(rooms, last'.c) :
          /\ ~Has(rooms', r)
          /\ LET other == OtherParticipant(rooms[r], last'.c) IN
               (other # NoConn /\ other # last'.c)
               => Cardinality(ReceivedNext(other, "call-ended", r, "peer-disconnected")) = 1]_vars

\* ---- C3 ----
\* C3: an initiate-call from a connection already bound to a session in the
\* store is rejected: no session is created, no incoming-call is broadcast,
\* the store and the connection's session reference are unchanged.
C3_SecondInitiateRejected ==
  [][(/\ last'.op = "initiate-call"
      /\ sockRoomId[last'.c] # NoRoomId
      /\ Has(rooms, sockRoomId[last'.c]))
     => (/\ rooms' = rooms
         /\ sockRoomId' = sockRoomId
         /\ EmittedNext("incoming-call") = {})]_vars

\* ---- C4 ----
\* C4: in every reachable state, each connection is the caller or the owner of
\* at most one session in the store.
C4_AtMostOneSessionPerConnection ==
  \A c \in ConnIds : Cardinality(SessionsOf(rooms, c)) <= 1

\* ---- C5 ----
\* C5: in every reachable state, at most two connections are members of the
\* Socket.IO room of a session in the store (the connections that receive its
\* call-ended broadcast).
C5_AtMostTwoParticipants ==
  \A r \in DOMAIN rooms : Cardinality(Members(CallRoom(r), {})) <= 2

\* ---- C6 ----
\* C6: across end-call, decline-call, cancel-call, disconnect and the sweep, at
\* most one terminal event is ever emitted for a session id; an attempt that
\* finds the session absent emits nothing and leaves the store unchanged, and
\* the sweep emits only for sessions that are in the store.
C6_OneTerminalEventPerSession ==
  [][/\ \A r \in RoomIds : termCount'[r] <= 1
     /\ (/\ last'.op \in {"end-call", "decline-call", "cancel-call", "disconnect"}
         /\ ~Has(rooms, last'.r))
        => (out' = <<>> /\ rooms' = rooms)
     /\ last'.op = "sweep"
        => \A i \in DOMAIN out' : Has(rooms, out'[i].roomId)]_vars

\* a terminal handler ran for a session that an earlier terminal event removed
C6_Witness ==
  /\ last.op \in {"end-call", "decline-call", "cancel-call", "disconnect"}
  /\ last.r \in RoomIds
  /\ termCount[last.r] = 1
  /\ ~Has(rooms, last.r)
  /\ out = <<>>

\* ---- C7 ----
\* C7: a session is ringing when it enters the store, its status changes only
\* from ringing to connecting, and a connecting session never becomes ringing
\* again.
C7_StatusOnlyMovesForward ==
  [][/\ \A r \in DOMAIN rooms' \ DOMAIN rooms : rooms'[r].status = "ringing"
     /\ \A r \in DOMAIN rooms \cap DOMAIN rooms' :
          \/ rooms'[r].status = rooms[r].status
          \/ rooms[r].status = "ringing" /\ rooms'[r].status = "connecting"]_vars

\* an answer-call ran on a session that another connection had answered before
C7_Witness ==
  /\ last.op = "answer-call"
  /\ Has(rooms, last.r)
  /\ rooms[last.r].status = "connecting"
  /\ \E d \in ConnIds \ {last.c, rooms[last.r].caller} : CallRoom(last.r) \in joined[d]

\* ---- C8 ----
\* C8: a call-ended with reason timeout is emitted, and a session removed by
\* the sweep, only when the time of the sweep minus the session's creation
\* time is strictly greater than the maximum lifetime.
C8_ReaperNeverEarly ==
  [][/\ \A i \in DOMAIN out' :
          out'[i].reason = "timeout"
          => /\ last'.op = "sweep"
             /\ Has(rooms, out'[i].roomId)
             /\ now - rooms[out'[i].roomId].createdAt > MaxAge
     /\ last'.op = "sweep"
        => \A r \in DOMAIN rooms \ DOMAIN rooms' : now - rooms[r].createdAt > MaxAge]_vars

\* a sweep timed a session out and left one whose age is exactly the maximum
C8_Witness ==
  /\ last.op = "sweep"
  /\ \E i \in DOMAIN out : out[i].reason = "timeout"
  /\ \E r \in DOMAIN rooms : now - rooms[r].createdAt = MaxAge

\* ---- C9 ----
\* C9: with the sweep firing every interval, every session in the store,
\* whatever its status, has age at most the maximum lifetime plus one sweep
\* interval.
C9_AgeBounded ==
  \A r \in DOMAIN rooms : now - rooms[r].createdAt <= MaxAge + SweepInterval

\* an answered session reached the age bound
C9_Witness ==
  \E r \in DOMAIN rooms :
    /\ rooms[r].status = "connecting"
    /\ now - rooms[r].createdAt = MaxAge + SweepInterval

\* ---- C10 ----
\* C10: under fairness of the clock and the sweep, every session that enters
\* the store is eventually removed from it.
C10_EverySessionEventuallyRemoved ==
  \A r \in RoomIds : Has(rooms, r) ~> ~Has(rooms, r)

\* the sweep removed a session whose caller had gone on to a further call, so
\* that the caller's disconnect would not have removed it
C10_Witness ==
  /\ last.op = "sweep"
  /\ \E i \in DOMAIN out :
       /\ out[i].reason = "timeout"
       /\ ~Has(rooms, out[i].roomId)
       /\ \E c \in out[i].to : sockRoomId[c] # out[i].roomId

\* ---- C11 ----
\* C11: an answer-call by connection O on a session in the store whose caller
\* is V sets the session's owner to O and its status to connecting; exactly
\* one call-answered is sent, addressed to V and received by no connection
\* other than V; exactly one create-offer is sent, to O alone, with targetId
\* V; no other connection receives either event.
C11_AnswerCallNotifies ==
  [][(last'.op = "answer-call" /\ Has(rooms, last'.r))
     => LET V == rooms[last'.r].caller IN
          /\ Has(rooms', last'.r)
          /\ rooms'[last'.r].caller = V
          /\ rooms'[last'.r].owner = last'.c
          /\ rooms'[last'.r].status = "connecting"
          /\ Cardinality(EmittedNext("call-answered")) = 1
          /\ \A i \in EmittedNext("call-answered") :
                /\ out'[i].dest = SockRoom(V)
                /\ out'[i].roomId = last'.r
                /\ out'[i].to \subseteq {V}
                /\ connState[V] = "open" => out'[i].to = {V}
          /\ Cardinality(EmittedNext("create-offer")) = 1
          /\ \A i \in EmittedNext("create-offer") :
                /\ out'[i].to = {last'.c}
                /\ out'[i].roomId = last'.r
                /\ out'[i].targetId = V]_vars

\* O answered the call of V while a third connection was open
C11_Witness ==
  /\ last.op = "answer-call"
  /\ Has(rooms, last.r)
  /\ rooms[last.r].owner = last.c
  /\ rooms[last.r].caller # last.c
  /\ \E i \in DOMAIN out : out[i].ev = "call-answered" /\ out[i].to = {rooms[last.r].caller}
  /\ \E d \in Open : d # last.c /\ d # rooms[last.r].caller

\* ---- C12 ----
\* C12: an answer-call that names a session id that is not in the store sends
\* one error event, to the acting connection alone, and changes nothing: no
\* session is created or modified, no call-answered or create-offer is sent,
\* and no connection's session reference, room membership or role changes.
C12_AnswerUnknownSession ==
  [][(last'.op = "answer-call" /\ ~Has(rooms, last'.r))
     => /\ Len(out') = 1
        /\ out'[1].ev = "error"
        /\ out'[1].to = {last'.c}
        /\ rooms' = rooms
        /\ sockRoomId' = sockRoomId
        /\ joined' = joined
        /\ isOwner' = isOwner
        /\ ownerSockets' = ownerSockets]_vars

\* an answer-call named a session that had been in the store and was removed
C12_Witness ==
  /\ last.op = "answer-call"
  /\ last.r \in RoomIds
  /\ ~Has(rooms, last.r)
  /\ termCount[last.r] = 1
  /\ Len(out) = 1
  /\ out[1].ev = "error"

\* ---- C13 ----
\* C13: a register-owner from a connection whose session is not that of an
\* authenticated owner is rejected: the connection is not added to
\* ownerSockets, does not join the owner room and is not marked as owner; and
\* no connection without an authenticated owner session is ever a member of
\* the owner room or reached by an event sent to it.
C13_UnauthenticatedOwnerRejected ==
  [][/\ (last'.op = "register-owner" /\ ~authed[last'.c])
        => /\ ownerSockets' = ownerSockets
           /\ joined' = joined
           /\ isOwner' = isOwner
           /\ EmittedNext("registered") = {}
     /\ \A c \in ConnIds :
          ~authed'[c]
          => /\ c \notin ownerSockets'
             /\ ~isOwner'[c]
             /\ OwnerRoom \notin joined'[c]
             /\ \A i \in DOMAIN out' : out'[i].dest = OwnerRoom => c \notin out'[i].to]_vars

\* ---- C14 ----
\* C14: an answer-call from a connection that is not registered in the owner
\* group (the session's own caller included) does not set the session's owner
\* and does not move the session to connecting.
C14_OnlyOwnersClaim ==
  [][(/\ last'.op = "answer-call"
      /\ Has(rooms, last'.r)
      /\ OwnerRoom \notin joined[last'.c])
     => (/\ Has(rooms', last'.r)
         /\ rooms'[last'.r].owner = rooms[last'.r].owner
         /\ rooms'[last'.r].status = rooms[last'.r].status)]_vars

\* ---- C15 ----
\* C15: a cancel-call for a session in the store that is sent by a connection
\* other than the session's caller leaves the session in the store and emits
\* no call-cancelled.
C15_OnlyInitiatorCancels ==
  [][(/\ last'.op = "cancel-call"
      /\ Has(rooms, last'.r)
      /\ rooms[last'.r].caller # last'.c)
     => (/\ rooms' = rooms
         /\ EmittedNext("call-cancelled") = {})]_vars

\* ---- C16 ----
\* C16: an offer, answer or ice-candidate is delivered only when the session
\* it names is in the store and its sender is that session's caller or owner;
\* otherwise no connection receives anything.
C16_RelayOnlyForParticipants ==
  [][(/\ last'.op \in {"offer", "answer", "ice-candidate"}
      /\ ~(/\ Has(rooms, last'.r)
           /\ last'.c \in {rooms[last'.r].caller, rooms[last'.r].owner}))
     => \A i \in DOMAIN out' : out'[i].to = {}]_vars

\* ---- C17 ----
\* C17: when a connection sends an offer, answer or ice-candidate, the one
\* event that is forwarded has the same name, is addressed to the targetId as
\* sent, carries the payload and the roomId exactly as sent and the sending
\* connection's id as senderId, whatever senderId the data object holds; the
\* session store and the sockets' session references, room memberships and
\* roles are unchanged.
C17_RelayVerbatim ==
  [][last'.op \in {"offer", "answer", "ice-candidate"}
     => /\ Len(out') = 1
        /\ out'[1].ev = last'.op
        /\ out'[1].dest = last'.data.targetId
        /\ out'[1].payload = last'.data.payload
        /\ out'[1].roomId = last'.data.roomId
        /\ out'[1].senderId = last'.c
        /\ UNCHANGED <<rooms, sockRoomId, joined, isOwner, ownerSockets>>]_vars

\* a participant of a session in the store relayed the second payload to the
\* other participant
C17_Witness ==
  /\ last.op \in {"offer", "answer", "ice-candidate"}
  /\ Has(rooms, last.r)
  /\ last.c \in {rooms[last.r].caller, rooms[last.r].owner}
  /\ Len(out) = 1
  /\ out[1].payload = MaxPayloads
  /\ out[1].senderId = last.c
  /\ last.data.senderId # last.c
  /\ out[1].to = {OtherParticipant(rooms[last.r], last.c)}
  /\ last.c \notin out[1].to

\* ---- C18 ----
\* C18: an offer, answer or ice-candidate whose targetId is missing, or is the
\* socket id of no connected socket, is delivered to no connection and
\* changes no state.
C18_UnresolvedTargetDropped ==
  [][(/\ last'.op \in {"offer", "answer", "ice-candidate"}
      /\ \/ last'.data.targetId = NoTarget
         \/ \E d \in ConnIds : last'.data.targetId = SockRoom(d) /\ connState[d] # "open")
     => /\ \A i \in DOMAIN out' : out'[i].to = {}
        /\ UNCHANGED <<connState, authed, isOwner, sockRoomId, joined, ownerSockets,
                       rooms, nextId, pendingAck>>]_vars

\* the callee of a call relayed to the socket id of the caller, who had left
C18_Witness ==
  /\ last.op \in {"offer", "answer", "ice-candidate"}
  /\ Len(out) = 1
  /\ out[1].to = {}
  /\ \E d \in ConnIds : out[1].dest = SockRoom(d) /\ connState[d] = "closed"
  /\ termCount[last.r] = 1

\* ---- C19 ----
\* C19: an end-call for a session in the store, sent by its caller or its
\* owner, delivers exactly one call-ended to the caller and, if an owner is
\* assigned, exactly one to the owner, and removes the session from the store.
C19_EndCallNotifiesBoth ==
  [][(/\ last'.op = "end-call"
      /\ Has(rooms, last'.r)
      /\ last'.c \in {rooms[last'.r].caller, rooms[last'.r].owner})
     => (/\ Cardinality(ReceivedNext(rooms[last'.r].caller, "call-ended", last'.r, "")) = 1
         /\ rooms[last'.r].owner # NoConn
            => Cardinality(ReceivedNext(rooms[last'.r].owner, "call-ended", last'.r, "")) = 1
         /\ ~Has(rooms', last'.r))]_vars

\* ---- C20 ----
\* C20: an initiate-call delivers exactly one incoming-call for the new session
\* to each connection registered as owner at that time, and incoming-call is
\* emitted at no other time and never again for the same session id; when the
\* caller of a session that nobody has answered disconnects, the session is
\* removed from the store and no event about it is delivered to any owner
\* connection.
C20_VisitorLeavesBeforeAnswer ==
  [][/\ last'.op = "initiate-call"
        => \A o \in ownerSockets :
             Cardinality(ReceivedNext(o, "incoming-call", last'.r, "")) = 1
     /\ EmittedNext("incoming-call") # {}
        => /\ last'.op = "initiate-call"
           /\ last'.r > nextId
           /\ \A i \in EmittedNext("incoming-call") : out'[i].roomId = last'.r
     /\ last'.op = "disconnect"
        => \A r \in DOMAIN rooms :
             (rooms[r].caller = last'.c /\ rooms[r].status = "ringing")
             => /\ ~Has(rooms', r)
                /\ \A i \in DOMAIN out' :
                     out'[i].roomId = r => out'[i].to \cap ownerSockets' = {}]_vars

\* ---- C21 ----
\* C21: a decline-call for a session in the store sends exactly one
\* call-declined, addressed to the session's caller and received by no other
\* connection, sends nothing else and removes that session and no other; a
\* decline-call for a session that is not in the store emits nothing and
\* leaves the store unchanged.
C21_DeclineNotifiesInitiator ==
  [][last'.op = "decline-call"
     => IF Has(rooms, last'.r)
        THEN LET V == rooms[last'.r].caller IN
               /\ Len(out') = 1
               /\ out'[1].ev = "call-declined"
               /\ out'[1].roomId = last'.r
               /\ out'[1].dest = SockRoom(V)
               /\ out'[1].to \subseteq {V}
               /\ connState[V] = "open" => out'[1].to = {V}
               /\ DOMAIN rooms' = DOMAIN rooms \ {last'.r}
               /\ \A x \in DOMAIN rooms' : rooms'[x] = rooms[x]
        ELSE out' = <<>> /\ rooms' = rooms]_vars

\* an owner declined the call of a connected caller while another session
\* stayed in the store
C21_Witness ==
  /\ last.op = "decline-call"
  /\ Len(out) = 1
  /\ out[1].ev = "call-declined"
  /\ out[1].to # {}
  /\ last.c \notin out[1].to
  /\ ~Has(rooms, last.r)
  /\ rooms # <<>>

\* ---- C22 ----
\* C22: every incoming-call, call-cancelled and visitor-typing is emitted once,
\* to the owner room, and is received by exactly the connections that are
\* connected and in ownerSockets at that time, hence by no connection that
\* never registered as owner or has disconnected; a register-owner from a
\* connection that is registered already changes nothing in the registry.
C22_OwnerBroadcast ==
  [][/\ \A i \in DOMAIN out' :
          out'[i].ev \in {"incoming-call", "call-cancelled", "visitor-typing"}
          => /\ out'[i].dest = OwnerRoom
             /\ out'[i].to = {c \in ConnIds : connState'[c] = "open" /\ c \in ownerSockets'}
             /\ Cardinality(EmittedNext(out'[i].ev)) = 1
     /\ (last'.op = "register-owner" /\ last'.c \in ownerSockets)
        => /\ ownerSockets' = ownerSockets
           /\ joined' = joined
           /\ isOwner' = isOwner]_vars

\* a visitor-typing whose lookup had been pending reached the two registered
\* owners
C22_Witness ==
  /\ last.op = "typing-lookup"
  /\ Len(out) = 1
  /\ out[1].ev = "visitor-typing"
  /\ Cardinality(out[1].to) = 2

\* ---- C29 ----
\* C29: a connection that disconnects is not in ownerSockets afterwards, and
\* in every reachable state every member of ownerSockets is connected, has an
\* authenticated owner session, is marked as owner and is in the owner room.
C29_OwnerSocketsLive ==
  [][/\ last'.op = "disconnect" => last'.c \notin ownerSockets'
     /\ \A c \in ownerSockets' :
          /\ connState'[c] = "open"
          /\ authed'[c]
          /\ isOwner'[c]
          /\ OwnerRoom \in joined'[c]]_vars

\* a connection disconnected while another stayed registered as owner
C29_Witness ==
  /\ last.op = "disconnect"
  /\ connState[last.c] = "closed"
  /\ last.c \notin ownerSockets
  /\ ownerSockets # {}

\* ---- C23 ----
\* C23: initiate-call puts the session into the store with status ringing and
\* broadcasts incoming-call before its notifications are invoked; when the
\* notifications have settled, however they ended, the handler changes no
\* session record and sends call-initiated for the session to the initiator
\* alone; and every initiate-call is eventually followed by that call-initiated.
C23_TransitionBeforeNotification ==
  /\ [][/\ (last'.op = "initiate-call")
            => (/\ ~Has(pendingAck, last'.r)
                /\ Has(pendingAck', last'.r)
                /\ Has(rooms', last'.r)
                /\ rooms'[last'.r].status = "ringing"
                /\ rooms'[last'.r].caller = last'.c
                /\ Cardinality(EmittedNext("incoming-call")) = 1
                /\ EmittedNext("call-initiated") = {})
        /\ (last'.op = "call-initiated")
            => (/\ rooms' = rooms
                /\ Has(pendingAck, last'.r)
                /\ pendingAck[last'.r] = last'.c
                /\ Len(out') = 1
                /\ out'[1].ev = "call-initiated"
                /\ out'[1].roomId = last'.r
                /\ out'[1].to \subseteq {last'.c}
                /\ (connState[last'.c] = "open" => out'[1].to = {last'.c}))]_vars
  /\ \A r \in RoomIds :
       Has(pendingAck, r)
       ~> (/\ last.op = "call-initiated"
           /\ last.r = r
           /\ Len(out) = 1
           /\ out[1].ev = "call-initiated")

\* the call-initiated reached the initiator after an owner had answered the
\* call while the notifications were pending
C23_Witness ==
  /\ last.op = "call-initiated"
  /\ Len(out) = 1
  /\ out[1].to = {last.c}
  /\ Has(rooms, last.r)
  /\ rooms[last.r].status = "connecting"
  /\ rooms[last.r].owner \in ownerSockets
  /\ rooms[last.r].owner # last.c

\* ---- C24 ----
\* C24: a connection receives an event addressed to a visitor channel only if
\* that channel is the one of its latest join-visitor-room: after joining
\* channel A and then channel B it no longer receives what is sent to A.
C24_RejoinReplacesBinding ==
  [][\A i \in DOMAIN out' : \A v \in VisitorIds :
       out'[i].dest = VisitorRoom(v)
       => \A c \in out'[i].to : sockVisitorId'[c] = v]_vars

\* ---- C25 ----
\* C25: in every reachable state no connection is a member of the owner room
\* and of a visitor channel at once.
C25_OneRoleAtATime ==
  \A c \in ConnIds :
    ~(OwnerRoom \in joined[c] /\ \E v \in VisitorIds : VisitorRoom(v) \in joined[c])

\* ---- C26 ----
\* C26: a typing event changes no session, no registration and no socket
\* field.  Without a visitorId it emits nothing.  With a visitorId, sent by a
\* connection registered as owner, it emits one owner-typing, to that
\* visitor's channel and its members alone.  With a visitorId, sent by any
\* other connection, it emits one visitor-typing for that visitorId, to the
\* owner room and the registered owners alone, at once or after the lookup
\* of the conversation id.
C26_TypingByRole ==
  [][/\ (last'.op = "typing")
        => (/\ UNCHANGED <<connState, authed, isOwner, sockRoomId, joined, ownerSockets,
                           rooms, sockVisitorId>>
            /\ LET v == last'.data.visitorId IN
                 IF v = NoVisitor
                 THEN out' = <<>> /\ pendingTyping' = pendingTyping
                 ELSE IF last'.c \in ownerSockets
                 THEN /\ pendingTyping' = pendingTyping
                      /\ Len(out') = 1
                      /\ out'[1].ev = "owner-typing"
                      /\ out'[1].dest = VisitorRoom(v)
                      /\ out'[1].to = {d \in Open : VisitorRoom(v) \in joined[d]}
                 ELSE IF last'.data.lookup
                 THEN /\ out' = <<>>
                      /\ pendingTyping' = Append(pendingTyping, [c |-> last'.c, visitorId |-> v])
                 ELSE /\ pendingTyping' = pendingTyping
                      /\ Len(out') = 1
                      /\ out'[1].ev = "visitor-typing"
                      /\ out'[1].visitorId = v
                      /\ out'[1].dest = OwnerRoom
                      /\ out'[1].to = ownerSockets)
     /\ (last'.op = "typing-lookup")
        => (/\ UNCHANGED <<connState, authed, isOwner, sockRoomId, joined, ownerSockets,
                           rooms, sockVisitorId>>
            /\ Len(out') = 1
            /\ out'[1].ev = "visitor-typing"
            /\ last'.data.position \in DOMAIN pendingTyping
            /\ out'[1].visitorId = pendingTyping[last'.data.position].visitorId
            /\ pendingTyping' = RemoveAt(pendingTyping, last'.data.position)
            /\ out'[1].dest = OwnerRoom
            /\ out'[1].to = ownerSockets)]_vars

\* a registered owner's typing reached a visitor's connection while a
\* visitor's typing was waiting for its lookup
C26_Witness ==
  /\ last.op = "typing"
  /\ last.c \in ownerSockets
  /\ Len(out) = 1
  /\ out[1].ev = "owner-typing"
  /\ out[1].to # {}
  /\ last.c \notin out[1].to
  /\ pendingTyping # <<>>

\* ---- C27 ----
\* C27: a sweep removes from the store exactly the sessions that are older
\* than the maximum lifetime and leaves every other record as it was; it emits
\* exactly one call-ended with reason timeout for each session it removes and
\* no other event, so nothing is emitted for an id that was not in the store.
C27_SweepRemovesExactlyExpired ==
  [][(last'.op = "sweep")
     => LET old == {r \in DOMAIN rooms : now - rooms[r].createdAt > MaxAge} IN
          /\ DOMAIN rooms' = DOMAIN rooms \ old
          /\ \A r \in DOMAIN rooms' : rooms'[r] = rooms[r]
          /\ Len(out') = Cardinality(old)
          /\ \A i \in DOMAIN out' :
               /\ out'[i].ev = "call-ended"
               /\ out'[i].reason = "timeout"
               /\ out'[i].roomId \in old
               /\ out'[i].dest = CallRoom(out'[i].roomId)
          /\ \A r \in old : Cardinality({i \in DOMAIN out' : out'[i].roomId = r}) = 1]_vars

\* a sweep removed one session and kept a younger one that had been answered
C27_Witness ==
  /\ last.op = "sweep"
  /\ Len(out) = 1
  /\ out[1].reason = "timeout"
  /\ ~Has(rooms, out[1].roomId)
  /\ \E r \in DOMAIN rooms : rooms[r].status = "connecting"

C30_StatusAndOwnerAgree ==
  \A r \in DOMAIN rooms :
    /\ rooms[r].status \in {"ringing", "connecting"}
    /\ (rooms[r].owner = NoConn) <=> (rooms[r].status = "ringing")

\* the store holds a ringing session and an answered one
C30_Witness ==
  /\ \E r \in DOMAIN rooms : rooms[r].status = "ringing" /\ rooms[r].owner = NoConn
  /\ \E r \in DOMAIN rooms : rooms[r].status = "connecting" /\ rooms[r].owner \in ConnIds

\* ---- C31 ----
\* C31: when call-initiated is sent to the initiator, its session is in the
\* store with status ringing.
C31_AckWhileRinging ==
  [][(last'.op = "call-initiated" /\ out' # <<>>)
     => (Has(rooms, last'.r) /\ rooms[last'.r].status = "ringing")]_vars

\* ---- C32 ----
\* C32: a forwarded offer, answer or ice-candidate reaches at most one
\* connection, which is the caller or the owner of the session it names, and
\* reaches nobody when its targetId is the name of the owner room or of a
\* call room.
C32_RelayToOneParticipant ==
  [][last'.op \in {"offer", "answer", "ice-candidate"}
     => \A i \in DOMAIN out' :
          /\ Cardinality(out'[i].to) <= 1
          /\ \A d \in out'[i].to :
               Has(rooms, last'.r) /\ d \in {rooms[last'.r].caller, rooms[last'.r].owner}
          /\ (last'.data.targetId.k \notin {"sock", "undefined"}) => (out'[i].to = {})]_vars

\* ---- C33 ----
\* C33: an end-call or decline-call for a session in the store, sent by a
\* connection that is not its caller, not its owner and not a registered
\* owner, leaves the session as it was and sends no terminal event to
\* anybody.
C33_OutsiderCannotRemove ==
  [][(/\ last'.op \in {"end-call", "decline-call"}
      /\ Has(rooms, last'.r)
      /\ last'.c \notin {rooms[last'.r].caller, rooms[last'.r].owner}
      /\ last'.c \notin ownerSockets)
     => (/\ Has(rooms', last'.r)
         /\ rooms'[last'.r] = rooms[last'.r]
         /\ \A i \in DOMAIN out' : out'[i].ev \notin TerminalEvents)]_vars

\* ---- C34 ----
\* C34: when a session that has an owner is removed from the store, its caller
\* and its owner, as far as they are connected, are each sent a terminal
\* event for that session id in the same step.
C34_BothParticipantsToldOfRemoval ==
  [][\A r \in DOMAIN rooms \ DOMAIN rooms' :
       (rooms[r].owner # NoConn)
       => \A p \in {rooms[r].caller, rooms[r].owner} :
            (connState'[p] = "open")
            => \E i \in DOMAIN out' : /\ out'[i].ev \in TerminalEvents
                                      /\ out'[i].roomId = r
                                      /\ p \in out'[i].to]_vars

\* ---- C35 ----
\* the owner connection o is being sent incoming-call for session r
RangAt(o, r) ==
  \E i \in DOMAIN out : out[i].ev = "incoming-call" /\ out[i].roomId = r /\ o \in out[i].to

StillRinging(r) == Has(rooms, r) /\ rooms[r].status = "ringing"

\* o is being sent an event other than incoming-call about session r, or o
\* itself is the connection that has just acted on r, or o has disconnected
ToldAt(o, r) ==
  \/ \E i \in DOMAIN out : out[i].ev # "incoming-call" /\ out[i].roomId = r /\ o \in out[i].to
  \/ last.c = o /\ last.r = r /\ last.op # "initiate-call"
  \/ connState[o] # "open"

\* C35: an owner connection that is sent incoming-call for a session either
\* sees the session ring for ever or is eventually sent an event about that
\* session (or ends the ringing itself, or disconnects).
C35_RingingOwnersAreTold ==
  \A o \in OwnerConnIds : \A r \in 1..MaxNotifyRooms :
    [](RangAt(o, r) => ([]StillRinging(r) \/ <>ToldAt(o, r)))

\* ---- C36 ----
\* C36: the visitor-typing events of one connection are emitted in the order
\* in which the connection sent its typing events: no visitor-typing is
\* emitted for a typing event while an earlier typing event of the same
\* connection is still waiting for its lookup.
C36_TypingInOrder ==
  [][/\ (/\ last'.op = "typing"
         /\ \E i \in DOMAIN out' : out'[i].ev = "visitor-typing")
        => \A j \in DOMAIN pendingTyping : pendingTyping[j].c # last'.c
     /\ (last'.op = "typing-lookup")
        => \A j \in 1..(last'.data.position - 1) : pendingTyping[j].c # last'.c]_vars

\* ---- C37 ----
\* C37: register-owner answers registered exactly when the session of the
\* connection has an ownerId in the session store at that time, and a
\* connection enters ownerSockets only then.
C37_RegisterChecksCurrentAuth ==
  [][(last'.op = "register-owner")
     => (/\ (\E i \in DOMAIN out' : out'[i].ev = "registered") <=> sessionOwnerId[last'.c]
         /\ (last'.c \in ownerSockets' \ ownerSockets) => sessionOwnerId[last'.c])]_vars

\* ---- C38 ----
\* C38: when a request for a conversation's messages marks messages as read,
\* every message it marks is listed in the messageIds of the messages-read
\* event it sends to the visitor's room, and it sends messages-read only when
\* it marks at least one message.
C38_ReceiptListsMarked ==
  [][(last'.op \in {"read-messages", "mark-read"})
     => LET marked == {m \in DOMAIN messages : ~messages[m].isRead /\ messages'[m].isRead}
            receipts == {i \in DOMAIN out' : out'[i].ev = "messages-read"}
        IN /\ \A m \in marked : \E i \in receipts : m \in out'[i].messageIds
           /\ (receipts # {}) => (marked # {})]_vars

====
